---- MODULE Spec2Model ----
(***************************************************************************)
(* Model of the two scripts of the repository.                             *)
(*                                                                         *)
(*   monalisa.py   sets the soundfont= line of VLC's vlcrc                 *)
(*   patch_vlc.py  clones/updates VLC, applies patches, configures, builds *)
(*                                                                         *)
(* Text is modelled as sequences of one-character strings, so that         *)
(* lstrip / startswith / endswith / splitlines / join and the newline      *)
(* translation of read_text / write_text are computed character by         *)
(* character as Python computes them.                                      *)
(***************************************************************************)
EXTENDS Integers, Sequences, FiniteSets, TLC

VARIABLES
    \* ---- update_soundfont_in_lines called directly (SpecMerge) ----
    mPc,        \* "call" | "merged" | "remerged"
    mLines,     \* the argument lines: a sequence of lines
    mSf,        \* the argument sf_path (already resolved)
    mOut,       \* result of the first call
    mOut2,      \* result of calling again on mOut
    \* ---- configure_vlc_soundfont runs against one APPDATA (SpecConf) ----
    cPc,        \* position inside configure_vlc_soundfont
    cRuns,      \* number of runs started so far
    cArg,       \* sf_path argument of the current run
    cSfIsFile,  \* sf_path.is_file() for the current run
    cAppdata,   \* os.environ.get("APPDATA") is set and non-empty
    cLinesep,   \* os.linesep of the platform
    cDir,       \* %APPDATA%\vlc exists
    cVlcrc,     \* the file vlcrc on disk
    cBak,       \* the file vlcrc.bak on disk
    cLines,     \* local variable lines
    cResult,    \* "none" | "ok" | "FileNotFoundError" | "RuntimeError"
    cPrev,      \* history: what the previous successful run wrote
    cPre,       \* history: the disk (dir, vlcrc, bak) when the run started
    \* ---- runs of patch_vlc.py main on one work directory (SpecOrch) ----
    oPc,        \* position inside main
    oRuns,      \* number of runs started so far
    oArgs,      \* the flags of the current run
    oTools,     \* the tools shutil.which finds on PATH
    oPatchDir,  \* the patches directory: whether it exists, its file names
    oWorkDir,   \* work_dir exists
    oRepoDir,   \* work_dir/vlc exists
    oBuildDir,  \* work_dir/build exists
    oHasConfigure, \* work_dir/vlc/configure exists
    oTodo,      \* apply_patches: the patch files not yet applied
    oCmds,      \* the external processes this run has run, with return codes
    oExit,      \* exit status of the run (read when oPc is done or aborted)
    oFail,      \* which exit path ended the run
    oPre,       \* history: the directories when the run started
    oClones     \* history: successful git clones over all runs

mergeVars == <<mPc, mLines, mSf, mOut, mOut2>>
confVars  == <<cPc, cRuns, cArg, cSfIsFile, cAppdata, cLinesep, cDir,
               cVlcrc, cBak, cLines, cResult, cPrev, cPre>>
orchVars  == <<oPc, oRuns, oArgs, oTools, oPatchDir, oWorkDir, oRepoDir,
               oBuildDir, oHasConfigure, oTodo, oCmds, oExit, oFail, oPre,
               oClones>>
vars == <<mergeVars, confVars, orchVars>>

\* a file on disk: absent, or present with its bytes
NoFile == [exists |-> FALSE, data |-> <<>>]
File(d) == [exists |-> TRUE, data |-> d]

-----------------------------------------------------------------------------
(* Bounds *)

MaxLines == 3       \* lines in an argument of update_soundfont_in_lines
MaxFileLines == 2   \* lines in the vlcrc that exists before the first run
MaxRuns == 2        \* runs of configure_vlc_soundfont in a row
MaxOrchRuns == 2    \* runs of patch_vlc.py in a row

-----------------------------------------------------------------------------
(* Python str operations *)

\* str.isspace() characters that can be written here
Whitespace == {" ", "\t", "\n", "\r", "\f"}

RECURSIVE lstrip(_)
lstrip(s) ==
    IF s = <<>> THEN s
    ELSE IF Head(s) \in Whitespace THEN lstrip(Tail(s)) ELSE s

startswith(s, p) == Len(s) >= Len(p) /\ SubSeq(s, 1, Len(p)) = p

endswith(s, p) == Len(s) >= Len(p) /\ SubSeq(s, Len(s) - Len(p) + 1, Len(s)) = p

\* "".join(lines)
RECURSIVE join(_)
join(lines) == IF lines = <<>> THEN <<>> ELSE Head(lines) \o join(Tail(lines))

-----------------------------------------------------------------------------
(* monalisa.py: update_soundfont_in_lines *)

KeyEq == <<"s","o","u","n","d","f","o","n","t","=">>
HashKeyEq == <<"#">> \o KeyEq

\* f'soundfont="{sf_path}"\n'
target_line(sf) == KeyEq \o <<"\"">> \o sf \o <<"\"", "\n">>

\* "\n# Set by configure_vlc_soundfont.py\n"
MarkerLine ==
    <<"\n","#"," ","S","e","t"," ","b","y"," ",
      "c","o","n","f","i","g","u","r","e","_","v","l","c","_",
      "s","o","u","n","d","f","o","n","t",".","p","y","\n">>

\* mutation: the line is tested without line.lstrip()
IsSoundfontLineNoStrip(line) ==
    startswith(line, KeyEq) \/ startswith(line, HashKeyEq)

\* lines 54-55: stripped = line.lstrip(); the two startswith tests
IsSoundfontLine(line) ==
    LET stripped == lstrip(line)
    IN  startswith(stripped, KeyEq) \/ startswith(stripped, HashKeyEq)

\* mutation: only the first matching line is replaced
ScanUpdatedFirstOnly(lines, target) ==
    [i \in 1..Len(lines) |->
        IF IsSoundfontLine(lines[i])
           /\ \A j \in 1..(i - 1) : ~IsSoundfontLine(lines[j])
        THEN target ELSE lines[i]]

\* the loop of lines 53-60: updated after the scan
ScanUpdated(lines, target) ==
    [i \in 1..Len(lines) |->
        IF IsSoundfontLine(lines[i]) THEN target ELSE lines[i]]

\* mutation: found is never set
ScanFoundNeverSet(lines) == FALSE

\* the loop of lines 53-60: found after the scan
ScanFound(lines) == \E i \in 1..Len(lines) : IsSoundfontLine(lines[i])

\* mutation: the last line is not given its missing newline
AppendSettingNoNewlineFix(updated, target) ==
    updated \o <<MarkerLine, target>>

\* lines 62-67: the append when nothing was found
AppendSetting(updated, target) ==
    LET n == Len(updated)
        fixed == IF n > 0 /\ ~endswith(updated[n], <<"\n">>)
                 THEN [updated EXCEPT ![n] = @ \o <<"\n">>]
                 ELSE updated
    IN  fixed \o <<MarkerLine, target>>

update_soundfont_in_lines(lines, sf) ==
    LET target  == target_line(sf)
        updated == ScanUpdated(lines, target)
    IN  IF ScanFound(lines) THEN updated ELSE AppendSetting(updated, target)

-----------------------------------------------------------------------------
(* monalisa.py: file contents, read_text / splitlines / write_text *)

\* read_text opens with newline=None: "\r\n" and "\r" are read as "\n"
RECURSIVE ReadText(_)
ReadText(b) ==
    IF b = <<>> THEN <<>>
    ELSE IF Head(b) = "\r"
         THEN <<"\n">> \o ReadText(IF Len(b) >= 2 /\ b[2] = "\n"
                                   THEN Tail(Tail(b)) ELSE Tail(b))
         ELSE <<Head(b)>> \o ReadText(Tail(b))

\* write_text opens with newline=None: "\n" is written as os.linesep
RECURSIVE WriteText(_, _)
WriteText(t, linesep) ==
    IF t = <<>> THEN <<>>
    ELSE (IF Head(t) = "\n" THEN linesep ELSE <<Head(t)>>)
         \o WriteText(Tail(t), linesep)

\* the line boundaries of str.splitlines that can be written here
LineBoundaries == {"\n", "\r", "\f"}

\* text.splitlines(keepends=True); cur is the line being collected
RECURSIVE SplitAcc(_, _)
SplitAcc(t, cur) ==
    IF t = <<>> THEN (IF cur = <<>> THEN <<>> ELSE <<cur>>)
    ELSE IF Head(t) = "\r" /\ Len(t) >= 2 /\ t[2] = "\n"
         THEN <<cur \o <<"\r", "\n">>>> \o SplitAcc(Tail(Tail(t)), <<>>)
         ELSE IF Head(t) \in LineBoundaries
              THEN <<cur \o <<Head(t)>>>> \o SplitAcc(Tail(t), <<>>)
              ELSE SplitAcc(Tail(t), cur \o <<Head(t)>>)

splitlines(t) == SplitAcc(t, <<>>)

\* Path.resolve() on Windows: a relative path is made absolute against the
\* current directory, an absolute path is kept
Cwd == <<"D", ":">>
IsAbsolute(p) == Len(p) >= 3 /\ p[2] = ":" /\ p[3] = "\\"
resolve(p) == IF IsAbsolute(p) THEN p ELSE Cwd \o <<"\\">> \o p

\* mutation: the backup is written whenever vlcrc exists
BackupAlways(vlcrc, bak) == IF vlcrc.exists THEN vlcrc ELSE bak

\* backup_file: the content of vlcrc.bak after the call
backup_file(vlcrc, bak) ==
    IF vlcrc.exists /\ ~bak.exists THEN vlcrc ELSE bak

-----------------------------------------------------------------------------
(* Inputs *)

\* line bodies: plain, active key, commented key, indented key,
\* "# soundfont=" (no match), empty
LineBodies ==
    { <<"f", "=", "1">>,
      KeyEq \o <<"x">>,
      HashKeyEq,
      <<" ", "\t">> \o KeyEq \o <<"y">>,
      <<"#", " ">> \o KeyEq,
      <<>> }

\* argument lines: each body with or without its "\n"; a line is not empty
ArgLines == {b \o e : b \in LineBodies, e \in {<<>>, <<"\n">>}} \ {<<>>}

RECURSIVE SeqsUpTo(_, _)
SeqsUpTo(S, n) ==
    IF n = 0 THEN {<<>>}
    ELSE LET shorter == SeqsUpTo(S, n - 1)
         IN  shorter \cup {<<x>> \o q : x \in S, q \in {r \in shorter : Len(r) = n - 1}}

\* resolved SoundFont paths
ResolvedPaths == { <<"D", ":", "\\", "m">>, <<"E", ":", "\\", "n">> }

\* sf_path arguments: relative, and absolute
ArgPaths == { <<"m">> } \cup ResolvedPaths

-----------------------------------------------------------------------------
(* SpecMerge: update_soundfont_in_lines applied to argument lists *)

confOff ==
    /\ cPc = "off" /\ cRuns = 0 /\ cArg = <<>> /\ cSfIsFile = FALSE
    /\ cAppdata = FALSE /\ cLinesep = <<"\n">> /\ cDir = FALSE
    /\ cVlcrc = NoFile /\ cBak = NoFile /\ cLines = <<>>
    /\ cResult = "none" /\ cPrev = NoFile /\ cPre = <<FALSE, NoFile, NoFile>>

NoArgs == [apply_only |-> FALSE, bootstrap |-> FALSE, configure |-> FALSE,
           build |-> FALSE, reverse |-> FALSE]
NoDir == [exists |-> FALSE, files |-> {}]

orchOff ==
    /\ oPc = "off" /\ oRuns = 0 /\ oArgs = NoArgs /\ oTools = {}
    /\ oPatchDir = NoDir /\ oWorkDir = FALSE /\ oRepoDir = FALSE
    /\ oBuildDir = FALSE /\ oHasConfigure = FALSE /\ oTodo = <<>>
    /\ oCmds = <<>> /\ oExit = 0 /\ oFail = "none"
    /\ oPre = <<FALSE, FALSE, FALSE, FALSE>> /\ oClones = 0

mergeOff ==
    /\ mPc = "off" /\ mLines = <<>> /\ mSf = <<>> /\ mOut = <<>> /\ mOut2 = <<>>

InitMerge ==
    /\ mPc = "call"
    /\ mLines \in SeqsUpTo(ArgLines, MaxLines)
    /\ mSf \in ResolvedPaths
    /\ mOut = <<>>
    /\ mOut2 = <<>>
    /\ confOff
    /\ orchOff

MergeCall ==
    /\ mPc = "call"
    /\ mOut' = update_soundfont_in_lines(mLines, mSf)
    /\ mPc' = "merged"
    /\ UNCHANGED <<mLines, mSf, mOut2, confVars, orchVars>>

MergeAgain ==
    /\ mPc = "merged"
    /\ mOut2' = update_soundfont_in_lines(mOut, mSf)
    /\ mPc' = "remerged"
    /\ UNCHANGED <<mLines, mSf, mOut, confVars, orchVars>>

NextMerge == MergeCall \/ MergeAgain

SpecMerge == InitMerge /\ [][NextMerge]_vars

-----------------------------------------------------------------------------
(* SpecConf: runs of configure_vlc_soundfont against one user profile *)

\* line bodies of the vlcrc found on disk; the last one holds a form feed,
\* at which splitlines cuts
FileBodies ==
    { <<"f", "=", "1">>,
      KeyEq \o <<"x">>,
      HashKeyEq,
      <<" ", "\t">> \o KeyEq \o <<"y">>,
      <<"a", "\f">> \o KeyEq }

DiskLines == {b \o e : b \in FileBodies, e \in {<<"\n">>, <<"\r", "\n">>}}

\* the vlcrc contents before the first run: up to MaxFileLines lines, the
\* last one with or without terminator
InitialFiles ==
    {<<>>} \cup
    {join(q) \o l : q \in SeqsUpTo(DiskLines, MaxFileLines - 1),
                    l \in DiskLines \cup FileBodies}

NoPrev == [exists |-> FALSE, sf |-> <<>>, data |-> <<>>]

InitConf ==
    /\ cPc = "idle"
    /\ cRuns = 0
    /\ cArg = <<>>
    /\ cSfIsFile = FALSE
    /\ cAppdata = FALSE
    /\ cLinesep \in {<<"\r", "\n">>, <<"\n">>}
    /\ cVlcrc \in {NoFile} \cup {File(d) : d \in InitialFiles}
    /\ cDir \in {b \in BOOLEAN : cVlcrc.exists => b}
    /\ cBak = NoFile
    /\ cLines = <<>>
    /\ cResult = "none"
    /\ cPrev = NoPrev
    /\ cPre = <<cDir, cVlcrc, cBak>>
    /\ mergeOff
    /\ orchOff

\* main, lines 114-117: a run starts with its argument and environment
ConfStart ==
    /\ cPc = "idle"
    /\ cRuns < MaxRuns
    /\ \E arg \in ArgPaths, isFile \in BOOLEAN, appdata \in BOOLEAN :
          /\ cArg' = arg
          /\ cSfIsFile' = isFile
          /\ cAppdata' = appdata
    /\ cRuns' = cRuns + 1
    /\ cPc' = "check"
    /\ cResult' = "none"
    /\ cLines' = <<>>
    /\ cPre' = <<cDir, cVlcrc, cBak>>
    /\ cPrev' = IF cResult = "ok"
                THEN [exists |-> TRUE, sf |-> resolve(cArg), data |-> cVlcrc.data]
                ELSE cPrev
    /\ UNCHANGED <<cLinesep, cDir, cVlcrc, cBak, mergeVars, orchVars>>

\* lines 77-78
CheckSoundfont ==
    /\ cPc = "check"
    /\ IF ~cSfIsFile
       THEN cResult' = "FileNotFoundError" /\ cPc' = "idle"
       ELSE cResult' = cResult /\ cPc' = "get_config"
    /\ UNCHANGED <<cRuns, cArg, cSfIsFile, cAppdata, cLinesep, cDir, cVlcrc,
                   cBak, cLines, cPrev, cPre, mergeVars, orchVars>>

\* mutation: the directory is created before APPDATA is tested
MkdirBeforeCheck(appdata, dir) == TRUE

\* get_vlc_config_file, lines 27-31: whether the directory exists afterwards
ConfigDirAfter(appdata, dir) == IF appdata THEN TRUE ELSE dir

\* line 80: get_vlc_config_file
GetVlcConfigFile ==
    /\ cPc = "get_config"
    /\ cDir' = ConfigDirAfter(cAppdata, cDir)
    /\ IF ~cAppdata
       THEN cResult' = "RuntimeError" /\ cPc' = "idle"
       ELSE cResult' = cResult /\ cPc' = "backup"
    /\ UNCHANGED <<cRuns, cArg, cSfIsFile, cAppdata, cLinesep, cVlcrc,
                   cBak, cLines, cPrev, cPre, mergeVars, orchVars>>

\* line 81: backup_file(vlcrc)
BackupFile ==
    /\ cPc = "backup"
    /\ cBak' = backup_file(cVlcrc, cBak)
    /\ cPc' = "read"
    /\ UNCHANGED <<cRuns, cArg, cSfIsFile, cAppdata, cLinesep, cDir, cVlcrc,
                   cLines, cResult, cPrev, cPre, mergeVars, orchVars>>

\* lines 83-87
ReadLines ==
    /\ cPc = "read"
    /\ cLines' = IF cVlcrc.exists THEN splitlines(ReadText(cVlcrc.data)) ELSE <<>>
    /\ cPc' = "write"
    /\ UNCHANGED <<cRuns, cArg, cSfIsFile, cAppdata, cLinesep, cDir, cVlcrc,
                   cBak, cResult, cPrev, cPre, mergeVars, orchVars>>

\* lines 89-91
WriteVlcrc ==
    /\ cPc = "write"
    /\ LET new_lines == update_soundfont_in_lines(cLines, resolve(cArg))
       IN  cVlcrc' = File(WriteText(join(new_lines), cLinesep))
    /\ cResult' = "ok"
    /\ cPc' = "idle"
    /\ UNCHANGED <<cRuns, cArg, cSfIsFile, cAppdata, cLinesep, cDir, cBak,
                   cLines, cPrev, cPre, mergeVars, orchVars>>

NextConf ==
    \/ ConfStart
    \/ CheckSoundfont
    \/ GetVlcConfigFile
    \/ BackupFile
    \/ ReadLines
    \/ WriteVlcrc

SpecConf == InitConf /\ [][NextConf]_vars

-----------------------------------------------------------------------------
(* patch_vlc.py: helpers *)

\* code points of the characters used in file names
Ord(c) ==
    CASE c = "." -> 46
      [] c = "0" -> 48
      [] c = "1" -> 49
      [] c = "9" -> 57
      [] c = "a" -> 97
      [] c = "c" -> 99
      [] c = "h" -> 104
      [] c = "p" -> 112
      [] c = "t" -> 116
      [] c = "x" -> 120

\* Path.__lt__ for two files of one directory: the names compared as str
RECURSIVE NameLess(_, _)
NameLess(a, b) ==
    IF b = <<>> THEN FALSE
    ELSE IF a = <<>> THEN TRUE
    ELSE IF Head(a) # Head(b) THEN Ord(Head(a)) < Ord(Head(b))
    ELSE NameLess(Tail(a), Tail(b))

\* sorted(...)
RECURSIVE Sorted(_)
Sorted(S) ==
    IF S = {} THEN <<>>
    ELSE LET m == CHOOSE x \in S : \A y \in S \ {x} : NameLess(x, y)
         IN  <<m>> \o Sorted(S \ {m})

\* mutation: the list is taken in descending order
RECURSIVE SortedDescending(_)
SortedDescending(S) ==
    IF S = {} THEN <<>>
    ELSE LET m == CHOOSE x \in S : \A y \in S \ {x} : NameLess(y, x)
         IN  <<m>> \o SortedDescending(S \ {m})

DotPatch == <<".", "p", "a", "t", "c", "h">>

\* patches_dir.glob("*.patch")
Glob(dir) == {f \in dir.files : endswith(f, DotPatch)}

\* mutation: the glob result is not put in ascending order
PatchFilesUnsorted(dir) == SortedDescending(Glob(dir))

\* line 108: patch_files = sorted(patches_dir.glob("*.patch"))
PatchFiles(dir) == Sorted(Glob(dir))

\* the return codes a failing process gives
RetCodes == {1, 128}

\* run, lines 45-54: where the run continues after the command returned rc
PcAfterRun(rc, next) == IF rc = 0 THEN next ELSE "aborted"

\* mutation: every failure exits with status 1
ExitAlwaysOne(rc) == IF rc = 0 THEN 0 ELSE 1

\* run, line 54: sys.exit(exc.returncode)
ExitAfterRun(rc) == IF rc = 0 THEN 0 ELSE rc % 256

\* run(cmd): the command runs and returns rc
Run(cmd, arg, rc, next) ==
    /\ oCmds' = Append(oCmds, [cmd |-> cmd, arg |-> arg, rc |-> rc])
    /\ oPc' = PcAfterRun(rc, next)
    /\ oExit' = ExitAfterRun(rc)
    /\ oFail' = IF PcAfterRun(rc, next) = "aborted" THEN "run" ELSE "none"

\* line 265: args.configure or args.build or args.bootstrap
MakeRequired(args) == args.configure \/ args.build \/ args.bootstrap

\* mutation: clone whether or not the directory exists
NeedsCloneAlways(repoDir) == TRUE

\* line 79: if not repo_dir.exists()
NeedsClone(repoDir) == ~repoDir

-----------------------------------------------------------------------------
(* SpecOrch: runs of patch_vlc.py main on one work directory *)

FileNames ==
    { <<"1">> \o DotPatch,
      <<"1", "0">> \o DotPatch,
      <<"9">> \o DotPatch,
      <<"0", ".", "t", "x", "t">> }

PatchDirs == {NoDir} \cup {[exists |-> TRUE, files |-> F] : F \in SUBSET FileNames}

ArgSets == [apply_only : BOOLEAN, bootstrap : BOOLEAN, configure : BOOLEAN,
            build : BOOLEAN, reverse : BOOLEAN]

Dirs == <<oWorkDir, oRepoDir, oBuildDir, oHasConfigure>>

oRunConst == <<oRuns, oArgs, oTools, oPatchDir, oPre>>
oDisk == <<oWorkDir, oRepoDir, oBuildDir, oHasConfigure, oClones>>

InitOrch ==
    /\ oPc = "idle"
    /\ oRuns = 0
    /\ oArgs = NoArgs
    /\ oTools = {}
    /\ oPatchDir = NoDir
    /\ oWorkDir = FALSE
    /\ oRepoDir = FALSE
    /\ oBuildDir = FALSE
    /\ oHasConfigure = FALSE
    /\ oTodo = <<>>
    /\ oCmds = <<>>
    /\ oExit = 0
    /\ oFail = "none"
    /\ oPre = Dirs
    /\ oClones = 0
    /\ mergeOff
    /\ confOff

\* main, line 261: a run starts with its flags and its environment
OrchStart ==
    /\ oPc = "idle"
    /\ oRuns < MaxOrchRuns
    /\ oArgs' \in ArgSets
    /\ oTools' \in SUBSET {"git", "make"}
    /\ oPatchDir' \in PatchDirs
    /\ oRuns' = oRuns + 1
    /\ oPc' = "check_git"
    /\ oTodo' = <<>>
    /\ oCmds' = <<>>
    /\ oExit' = 0
    /\ oFail' = "none"
    /\ oPre' = Dirs
    /\ UNCHANGED <<oDisk, mergeVars, confVars>>

\* check_tool, lines 61-64
ToolMissing ==
    /\ oPc' = "aborted"
    /\ oExit' = 1
    /\ oFail' = "check_tool"

\* line 264: check_tool("git")
CheckGit ==
    /\ oPc = "check_git"
    /\ IF "git" \notin oTools
       THEN ToolMissing
       ELSE oPc' = "check_make" /\ UNCHANGED <<oExit, oFail>>
    /\ UNCHANGED <<oRunConst, oDisk, oTodo, oCmds, mergeVars, confVars>>

\* lines 265-266: check_tool("make") when a flag needs it
CheckMake ==
    /\ oPc = "check_make"
    /\ IF MakeRequired(oArgs) /\ "make" \notin oTools
       THEN ToolMissing
       ELSE oPc' = "ensure_repo" /\ UNCHANGED <<oExit, oFail>>
    /\ UNCHANGED <<oRunConst, oDisk, oTodo, oCmds, mergeVars, confVars>>

\* ensure_repo, lines 79-82: mkdir work_dir, git clone; a failed clone
\* leaves no work_dir/vlc
CloneRepo ==
    /\ oPc = "ensure_repo"
    /\ NeedsClone(oRepoDir)
    /\ oWorkDir' = TRUE
    /\ \E rc \in {0} \cup RetCodes :
          /\ Run("clone", <<>>, rc, "checkout")
          /\ oRepoDir' = (oRepoDir \/ rc = 0)
          /\ oClones' = IF rc = 0 THEN oClones + 1 ELSE oClones
    /\ UNCHANGED <<oRunConst, oBuildDir, oHasConfigure, oTodo, mergeVars, confVars>>

\* ensure_repo, lines 83-85: git fetch origin
FetchRepo ==
    /\ oPc = "ensure_repo"
    /\ ~NeedsClone(oRepoDir)
    /\ \E rc \in {0} \cup RetCodes : Run("fetch", <<>>, rc, "checkout")
    /\ UNCHANGED <<oRunConst, oDisk, oTodo, mergeVars, confVars>>

\* ensure_repo, line 88: git checkout branch
Checkout ==
    /\ oPc = "checkout"
    /\ \E rc \in {0} \cup RetCodes : Run("checkout", <<>>, rc, "pull")
    /\ UNCHANGED <<oRunConst, oDisk, oTodo, mergeVars, confVars>>

\* ensure_repo, line 89: git pull origin branch
Pull ==
    /\ oPc = "pull"
    /\ \E rc \in {0} \cup RetCodes : Run("pull", <<>>, rc, "list_patches")
    /\ UNCHANGED <<oRunConst, oDisk, oTodo, mergeVars, confVars>>

\* apply_patches, lines 104-113
ListPatches ==
    /\ oPc = "list_patches"
    /\ IF ~oPatchDir.exists \/ PatchFiles(oPatchDir) = <<>>
       THEN oTodo' = <<>> /\ oPc' = "after_apply"
       ELSE oTodo' = PatchFiles(oPatchDir) /\ oPc' = "apply"
    /\ UNCHANGED <<oRunConst, oDisk, oCmds, oExit, oFail, mergeVars, confVars>>

\* apply_patches, lines 114-120: git apply [--reverse] patch
ApplyPatch ==
    /\ oPc = "apply"
    /\ oTodo # <<>>
    /\ \E rc \in {0} \cup RetCodes :
          Run(IF oArgs.reverse THEN "apply --reverse" ELSE "apply", Head(oTodo), rc,
              IF Tail(oTodo) = <<>> THEN "after_apply" ELSE "apply")
    /\ oTodo' = Tail(oTodo)
    /\ UNCHANGED <<oRunConst, oDisk, mergeVars, confVars>>

\* main, lines 287-302: what follows the patches
AfterApply ==
    /\ oPc = "after_apply"
    /\ oPc' = IF oArgs.apply_only THEN "done"
              ELSE IF oArgs.configure THEN "configure"
              ELSE IF oArgs.build THEN "build"
              ELSE "done"
    /\ UNCHANGED <<oRunConst, oDisk, oTodo, oCmds, oExit, oFail, mergeVars, confVars>>

\* configure_vlc, line 134: build_dir.mkdir(parents=True, exist_ok=True)
ConfigureMkdir ==
    /\ oPc = "configure"
    /\ oBuildDir' = TRUE
    /\ oPc' = IF oArgs.bootstrap THEN "bootstrap" ELSE "check_configure"
    /\ UNCHANGED <<oRunConst, oWorkDir, oRepoDir, oHasConfigure, oClones, oTodo,
                   oCmds, oExit, oFail, mergeVars, confVars>>

\* configure_vlc, lines 136-138: ./bootstrap, which may write configure
Bootstrap ==
    /\ oPc = "bootstrap"
    /\ \E rc \in {0} \cup RetCodes :
          /\ Run("bootstrap", <<>>, rc, "check_configure")
          /\ oHasConfigure' \in (IF rc = 0 THEN {TRUE, oHasConfigure}
                                 ELSE {oHasConfigure})
    /\ UNCHANGED <<oRunConst, oWorkDir, oRepoDir, oBuildDir, oClones, oTodo,
                   mergeVars, confVars>>

\* configure_vlc, lines 140-147
CheckConfigureScript ==
    /\ oPc = "check_configure"
    /\ IF ~oHasConfigure
       THEN oPc' = "aborted" /\ oExit' = 1 /\ oFail' = "configure_script"
       ELSE oPc' = "run_configure" /\ UNCHANGED <<oExit, oFail>>
    /\ UNCHANGED <<oRunConst, oDisk, oTodo, oCmds, mergeVars, confVars>>

\* configure_vlc, lines 151-155, then main line 299
RunConfigure ==
    /\ oPc = "run_configure"
    /\ \E rc \in {0} \cup RetCodes :
          Run("configure", <<>>, rc, IF oArgs.build THEN "build" ELSE "done")
    /\ UNCHANGED <<oRunConst, oDisk, oTodo, mergeVars, confVars>>

\* build_vlc, lines 163-166: run(["make", ...], cwd=build_dir)
BuildVlc ==
    /\ oPc = "build"
    /\ oBuildDir
    /\ \E rc \in {0} \cup RetCodes : Run("make", <<>>, rc, "done")
    /\ UNCHANGED <<oRunConst, oDisk, oTodo, mergeVars, confVars>>

\* build_vlc, line 166 without a build_dir: subprocess.run raises
\* FileNotFoundError for the cwd, run does not catch it, Python exits with 1
BuildVlcNoDir ==
    /\ oPc = "build"
    /\ ~oBuildDir
    /\ oPc' = "aborted"
    /\ oExit' = 1
    /\ oFail' = "uncaught"
    /\ UNCHANGED <<oRunConst, oDisk, oTodo, oCmds, mergeVars, confVars>>

\* the process has exited: of the run, only the directories remain
OrchExit ==
    /\ oPc \in {"done", "aborted"}
    /\ oPc' = "idle"
    /\ oArgs' = NoArgs
    /\ oTools' = {}
    /\ oPatchDir' = NoDir
    /\ oTodo' = <<>>
    /\ oCmds' = <<>>
    /\ oExit' = 0
    /\ oFail' = "none"
    /\ oPre' = Dirs
    /\ UNCHANGED <<oRuns, oDisk, mergeVars, confVars>>

NextOrch ==
    \/ OrchStart
    \/ OrchExit
    \/ CheckGit
    \/ CheckMake
    \/ CloneRepo
    \/ FetchRepo
    \/ Checkout
    \/ Pull
    \/ ListPatches
    \/ ApplyPatch
    \/ AfterApply
    \/ ConfigureMkdir
    \/ Bootstrap
    \/ CheckConfigureScript
    \/ RunConfigure
    \/ BuildVlc
    \/ BuildVlcNoDir

SpecOrch == InitOrch /\ [][NextOrch]_vars

-----------------------------------------------------------------------------
(* Properties of update_soundfont_in_lines (under SpecMerge) *)

\* a line matches the key when, after some leading whitespace, it starts
\* with soundfont= or #soundfont=
KeyMatch(line) ==
    \E k \in 0..Len(line) :
        /\ \A j \in 1..k : line[j] \in Whitespace
        /\ LET rest == SubSeq(line, k + 1, Len(line))
           IN  startswith(rest, KeyEq) \/ startswith(rest, HashKeyEq)

\* an active (uncommented) line matching the key
ActiveKeyLine(line) ==
    \E k \in 0..Len(line) :
        /\ \A j \in 1..k : line[j] \in Whitespace
        /\ startswith(SubSeq(line, k + 1, Len(line)), KeyEq)

NotKeyMatch(line) == ~KeyMatch(line)
OtherLine(line) == ~ActiveKeyLine(line) /\ line # MarkerLine

MatchPositions(lines) == {i \in 1..Len(lines) : KeyMatch(lines[i])}
ActivePositions(lines) == {i \in 1..Len(lines) : ActiveKeyLine(lines[i])}

WithNewline(line) == IF endswith(line, <<"\n">>) THEN line ELSE line \o <<"\n">>

WithFinalNewline(lines) ==
    IF lines = <<>> THEN lines
    ELSE [lines EXCEPT ![Len(lines)] = WithNewline(@)]

Merged == mPc \in {"merged", "remerged"}

\* C1 (as claimed): after a merge the output has exactly one active line
\* matching the key, that line is the canonical line for the requested
\* value, and the other lines are the input's non-matching lines, verbatim
\* and in order.
C1_ExactlyOneActive ==
    Merged =>
        /\ Cardinality(ActivePositions(mOut)) = 1
        /\ \A i \in ActivePositions(mOut) : mOut[i] = target_line(mSf)
        /\ SelectSeq(mOut, OtherLine) = SelectSeq(mLines, NotKeyMatch)

\* C1 (amended): the output has one active key line when the input has no
\* or one matching line and N when the input has N >= 2 matching lines;
\* every active key line of the output is the canonical line for the
\* requested value; the non-matching input lines are kept in order,
\* verbatim except that, when nothing matched, a last line without "\n"
\* gains one.
C1_ActivePerMatch ==
    Merged =>
        LET nIn == Cardinality(MatchPositions(mLines))
        IN  /\ Cardinality(ActivePositions(mOut)) = (IF nIn = 0 THEN 1 ELSE nIn)
            /\ \A i \in ActivePositions(mOut) : mOut[i] = target_line(mSf)
            /\ SelectSeq(mOut, OtherLine) =
                   (IF nIn = 0 THEN WithFinalNewline(mLines)
                    ELSE SelectSeq(mLines, NotKeyMatch))

\* C1 witness: merged input with a commented match, an active match and a
\* non-matching line
C1_Witness ==
    /\ mPc = "merged"
    /\ Cardinality(MatchPositions(mLines)) >= 2
    /\ \E i \in 1..Len(mLines) : startswith(mLines[i], HashKeyEq)
    /\ \E i \in 1..Len(mLines) : NotKeyMatch(mLines[i])

\* C2 (as claimed): when no input line matches, the canonical line is
\* appended once, as the last element, and every input line is in the
\* output unchanged at its position.
C2_AppendKeepsAllVerbatim ==
    (Merged /\ MatchPositions(mLines) = {}) =>
        /\ Len(mOut) > Len(mLines)
        /\ mOut[Len(mOut)] = target_line(mSf)
        /\ Cardinality({i \in 1..Len(mOut) : mOut[i] = target_line(mSf)}) = 1
        /\ \A i \in 1..Len(mLines) : mOut[i] = mLines[i]

\* C2 (amended): when no input line matches, the output is the input
\* followed by the marker element and the canonical line (appended once,
\* as the last element); every input line is unchanged at its position,
\* except that a last line without "\n" has "\n" appended.
C2_AppendKeepsAllButTerminator ==
    (Merged /\ MatchPositions(mLines) = {}) =>
        LET n == Len(mLines)
        IN  /\ Len(mOut) = n + 2
            /\ mOut[n + 1] = MarkerLine
            /\ mOut[n + 2] = target_line(mSf)
            /\ Cardinality({i \in 1..Len(mOut) : mOut[i] = target_line(mSf)}) = 1
            /\ \A i \in 1..(n - 1) : mOut[i] = mLines[i]
            /\ n > 0 => mOut[n] = WithNewline(mLines[n])

\* C2 witness: merged input of two or more lines, none matching, whose
\* last line has no terminator
C2_Witness ==
    /\ mPc = "merged"
    /\ MatchPositions(mLines) = {}
    /\ Len(mLines) >= 2
    /\ ~endswith(mLines[Len(mLines)], <<"\n">>)
    /\ mLines[Len(mLines)] # <<>>

\* C3: with N >= 1 matching input lines the output has the input's length,
\* the canonical line at each matching position and the input line at each
\* other position (nothing is appended).
C3_ReplaceInPlace ==
    (Merged /\ MatchPositions(mLines) # {}) =>
        /\ Len(mOut) = Len(mLines)
        /\ \A i \in 1..Len(mLines) :
              mOut[i] = (IF i \in MatchPositions(mLines)
                         THEN target_line(mSf) ELSE mLines[i])

\* C3 witness: merged input with two matches (one of them indented) and a
\* line without terminator that is kept
C3_Witness ==
    /\ mPc = "merged"
    /\ Cardinality(MatchPositions(mLines)) >= 2
    /\ \E i \in MatchPositions(mLines) : mLines[i][1] = " "
    /\ \E i \in 1..Len(mLines) :
          /\ i \notin MatchPositions(mLines)
          /\ ~endswith(mLines[i], <<"\n">>)
          /\ mOut[i] = mLines[i]

-----------------------------------------------------------------------------
(* Properties of configure_vlc_soundfont (under SpecConf) *)

RunOk == cPc = "idle" /\ cResult = "ok"

C5_BackupOnce ==
    LET preVlcrc == cPre[2]
        preBak   == cPre[3]
        past     == cPc \in {"read", "write"} \/ RunOk
    IN  /\ preBak.exists => cBak = preBak
        /\ (~preBak.exists /\ preVlcrc.exists /\ past) => cBak = preVlcrc
        /\ (~preBak.exists /\ ~(preVlcrc.exists /\ past)) => ~cBak.exists

\* C5 witness: a later successful run, with another SoundFont, rewrote
\* vlcrc and left the backup of an earlier run as it was
C5_Witness ==
    /\ RunOk
    /\ cRuns >= 2
    /\ cPre[3].exists
    /\ cBak = cPre[3]
    /\ cPrev.exists
    /\ cPrev.sf # resolve(cArg)
    /\ cVlcrc # cPre[2]
    /\ cVlcrc # cBak

-----------------------------------------------------------------------------
(* Properties of patch_vlc.py (under SpecOrch) *)

IsApply(e) == e.cmd \in {"apply", "apply --reverse"}
ApplyLog == SelectSeq(oCmds, IsApply)

\* the names of the patches directory that end in .patch
PatchNames ==
    {f \in oPatchDir.files :
        Len(f) >= Len(DotPatch)
        /\ SubSeq(f, Len(f) - Len(DotPatch) + 1, Len(f)) = DotPatch}

\* a comes before b in lexicographic order
LexBefore(a, b) ==
    \E i \in 1..Len(b) :
        /\ \A j \in 1..(i - 1) : j <= Len(a) /\ a[j] = b[j]
        /\ (i > Len(a) \/ Ord(a[i]) < Ord(b[i]))

AfterPatches ==
    {"after_apply", "configure", "bootstrap", "check_configure",
     "run_configure", "build", "done"}

FailedCmds == {i \in 1..Len(oCmds) : oCmds[i].rc # 0}

\* C7: the patches are attempted in lexicographic order of their names,
\* none is skipped, a patch is attempted only after every earlier one
\* applied; when one fails it is the last process of the run (no later
\* patch, no retry, no reverse apply of the earlier ones) and the run ends
\* aborted with that git apply's return code; a run that gets past the
\* apply step has attempted every patch.
C7_PatchesInOrderFailFast ==
    LET log == ApplyLog
        n   == Len(log)
    IN  /\ \A i \in 1..n :
              /\ log[i].arg \in PatchNames
              /\ log[i].cmd = (IF oArgs.reverse THEN "apply --reverse" ELSE "apply")
              /\ \A f \in PatchNames :
                    LexBefore(f, log[i].arg) => \E j \in 1..(i - 1) : log[j].arg = f
        /\ \A i \in 1..(n - 1) :
              /\ LexBefore(log[i].arg, log[i + 1].arg)
              /\ log[i].rc = 0
        /\ (n > 0 /\ log[n].rc # 0) =>
              /\ oCmds[Len(oCmds)] = log[n]
              /\ oPc = "aborted"
              /\ oExit = log[n].rc
        /\ oPc \in AfterPatches => {log[i].arg : i \in 1..n} = PatchNames

\* C7 witness: of three patches (beside a file that is no patch) the first
\* applied and the second failed with 128
C7_Witness ==
    /\ oPc = "aborted"
    /\ oPatchDir.files = FileNames
    /\ Len(ApplyLog) = 2
    /\ ApplyLog[1].rc = 0
    /\ ApplyLog[2].rc = 128
    /\ oExit = 128

\* C8 (as claimed): an aborted run ended on a failed external process,
\* nothing ran after it, and the exit status is that process's.
C8_AbortWithToolStatus ==
    oPc = "aborted" =>
        /\ FailedCmds = {Len(oCmds)}
        /\ oCmds # <<>>
        /\ oExit = oCmds[Len(oCmds)].rc

\* C8 (amended): a failed process is the last process of its run and the
\* run is aborted with that process's return code; a run aborted without a
\* failed process exits with 1, and it is one where a required tool is
\* missing (nothing was run), where configure is asked for and the
\* configure script is missing (neither configure nor make was run), or
\* where make is asked for without configure and the build directory is
\* missing (make was not run).
C8_AbortStatus ==
    /\ FailedCmds # {} =>
          /\ FailedCmds = {Len(oCmds)}
          /\ oPc = "aborted"
          /\ oExit = oCmds[Len(oCmds)].rc
    /\ (oPc = "aborted" /\ FailedCmds = {}) =>
          /\ oExit = 1
          /\ \/ /\ \/ "git" \notin oTools
                    \/ /\ "make" \notin oTools
                       /\ (oArgs.configure \/ oArgs.build \/ oArgs.bootstrap)
                 /\ oCmds = <<>>
             \/ /\ oArgs.configure /\ ~oArgs.apply_only /\ ~oHasConfigure
                 /\ \A i \in 1..Len(oCmds) : oCmds[i].cmd \notin {"configure", "make"}
             \/ /\ oArgs.build /\ ~oArgs.configure /\ ~oArgs.apply_only
                 /\ ~oBuildDir
                 /\ \A i \in 1..Len(oCmds) : oCmds[i].cmd # "make"

\* C8 witness: ./configure failed with 128 after clone, checkout, pull, a
\* patch and bootstrap succeeded; make was asked for and did not run
C8_Witness ==
    /\ oPc = "aborted"
    /\ oArgs.build
    /\ Len(oCmds) >= 6
    /\ oCmds[Len(oCmds)].cmd = "configure"
    /\ oCmds[Len(oCmds)].rc = 128
    /\ oExit = 128

\* C9: the first process of a run is git clone when work_dir/vlc did not
\* exist at the start of the run and git fetch when it did; no other clone
\* or fetch follows; the second process is git checkout and the third git
\* pull; a run that is past ensure_repo has run all three with success;
\* over all runs at most one clone succeeded, and work_dir/vlc exists
\* exactly when one did.
C9_CloneOnceThenUpdate ==
    LET n == Len(oCmds)
    IN  /\ oClones <= 1
        /\ oRepoDir <=> (oClones = 1)
        /\ n >= 1 => oCmds[1].cmd = (IF oPre[2] THEN "fetch" ELSE "clone")
        /\ \A i \in 2..n : oCmds[i].cmd \notin {"clone", "fetch"}
        /\ n >= 2 => oCmds[2].cmd = "checkout"
        /\ n >= 3 => oCmds[3].cmd = "pull"
        /\ oPc \in {"checkout", "pull"} => n >= 1
        /\ oPc \in {"list_patches", "apply"} \cup AfterPatches =>
              /\ n >= 3
              /\ \A i \in 1..3 : oCmds[i].rc = 0

\* C9 witness: a second run on a work directory cloned by the first run
\* fetched, checked out and pulled
C9_Witness ==
    /\ oRuns = 2
    /\ oPre[2]
    /\ oClones = 1
    /\ oPc = "done"
    /\ Len(oCmds) >= 3
    /\ oCmds[1].cmd = "fetch"

\* C10 (as claimed): whenever build_vlc is about to invoke make, or make
\* has run, work_dir/build exists.
C10_BuildDirExistsAtMake ==
    (oPc = "build" \/ \E i \in 1..Len(oCmds) : oCmds[i].cmd = "make") => oBuildDir

-----------------------------------------------------------------------------
(* SpecPre: either script, for the precondition errors of both *)

SpecPre == (InitConf \/ InitOrch) /\ [][NextConf \/ NextOrch]_vars

\* C6: precondition errors come before any mutation. A run of
\* configure_vlc_soundfont ends in FileNotFoundError exactly when the
\* SoundFont is no file and in RuntimeError exactly when it is one and
\* APPDATA is not set, and then directory, vlcrc and vlcrc.bak are as they
\* were when the run started; a run of patch_vlc.py for which git, or make
\* with one of --configure, --build, --bootstrap, is not on PATH aborts
\* with status 1 having run no process and created no directory.
C6_PreconditionsFirst ==
    /\ (cPc = "idle" /\ cResult # "none") =>
          /\ (cResult = "FileNotFoundError") <=> ~cSfIsFile
          /\ (cResult = "RuntimeError") <=> (cSfIsFile /\ ~cAppdata)
    /\ cResult \in {"FileNotFoundError", "RuntimeError"} =>
          <<cDir, cVlcrc, cBak>> = cPre
    /\ ( /\ oPc \notin {"off", "idle", "check_git", "check_make"}
         /\ \/ "git" \notin oTools
            \/ /\ "make" \notin oTools
               /\ (oArgs.configure \/ oArgs.build \/ oArgs.bootstrap) ) =>
          /\ oPc = "aborted"
          /\ oExit = 1
          /\ oCmds = <<>>
          /\ Dirs = oPre

\* C6 witness: APPDATA is not set, the SoundFont is a file, and the run
\* ended in RuntimeError with no directory made
C6_Witness ==
    /\ cPc = "idle"
    /\ cResult = "RuntimeError"
    /\ cSfIsFile
    /\ ~cDir
    /\ ~cVlcrc.exists

====
